---- MODULE Spec2Model ----
(***************************************************************************)
(* A model of check_apple.py: the polling loop that fetches the refurbished *)
(* products page, filters the listings by the configured terms, builds a    *)
(* MacBook record for each match, remembers the records it has seen and     *)
(* submits one notification task per new record.                            *)
(*                                                                          *)
(* Text is a sequence of one-character strings, so that str.strip, string   *)
(* concatenation and the substring test `term in specs` are computed.       *)
(* A sub-element of a listing that BeautifulSoup may fail to find is a      *)
(* sequence of length 0 (absent) or 1 (present).                            *)
(***************************************************************************)
EXTENDS Naturals, Sequences, FiniteSets, Bags, TLC

\* ------------------------------------------------------------------ bounds

\* The longest page (number of tr.product rows) a fetch returns.
MaxListings == 2
\* is_match's inputs in SpecMatch: the longest specs text, the longest term,
\* the longest term list.
MaxSpecsLen == 3
MaxTermLen == 2
MaxTerms == 2

\* ------------------------------------------------------------------ text

Whitespace == {" "}

RECURSIVE LStrip(_)
LStrip(s) ==
    IF s # <<>> /\ Head(s) \in Whitespace THEN LStrip(Tail(s)) ELSE s

RECURSIVE RStrip(_)
RStrip(s) ==
    IF s # <<>> /\ s[Len(s)] \in Whitespace
    THEN RStrip(SubSeq(s, 1, Len(s) - 1))
    ELSE s

\* str.strip(): leading and trailing whitespace removed.
Strip(s) == RStrip(LStrip(s))

\* Python's `term in specs` on two strings: some window of specs of the
\* term's length equals the term (the empty term is found at offset 0).
StrContains(specs, term) ==
    \E off \in 0..Len(specs) :
        /\ off + Len(term) <= Len(specs)
        /\ SubSeq(specs, off + 1, off + Len(term)) = term

\* All texts over an alphabet of length at most n.
RECURSIVE TextsUpTo(_, _)
TextsUpTo(alphabet, n) ==
    IF n = 0 THEN {<<>>}
    ELSE LET shorter == TextsUpTo(alphabet, n - 1)
         IN  shorter \cup {<<c>> \o t : c \in alphabet, t \in {u \in shorter : Len(u) = n - 1}}

\* ------------------------------------------------------------------ configuration (base.py)

BASE_URL == <<"U">>

M1 == <<"M", "1">>
G16 == <<"1", "6">>

\* The size of the pool: ThreadPoolExecutor(THREADS).
THREADS == 1

\* The size of get_specs' cache: lru_cache(maxsize=LRU_CACHE_SIZE).
LRU_CACHE_SIZE == 1

\* The term lists FIND_TERMS may be configured to.
TermLists == {<<>>, <<M1, G16>>}

\* ------------------------------------------------------------------ the page

Product(title, href, price, specs) ==
    [h3a |-> <<[text |-> title, href |-> href]>>, price |-> <<price>>, specs |-> <<specs>>]

\* tr.product rows a page may hold: two that differ in whitespace only, one
\* whose specs lack a term, one without span.price whose specs lack a term, one
\* without td.specs.
ProdA == Product(<<" ", "A">>, <<"/", "a">>, <<"$", "1", " ">>, <<" ", "M", "1", " ", "1", "6">>)
ProdA2 == Product(<<"A">>, <<"/", "a">>, <<"$", "1">>, <<"M", "1", " ", "1", "6">>)
ProdC == Product(<<"C">>, <<"/", "c">>, <<"$", "1">>, <<"M", "2", " ", "1", "6">>)
ProdNoPrice == [ProdC EXCEPT !.price = <<>>]
ProdNoSpecs == [ProdC EXCEPT !.specs = <<>>]

Products == {ProdA, ProdA2, ProdC, ProdNoPrice, ProdNoSpecs}

RECURSIVE SeqsUpTo(_, _)
SeqsUpTo(S, n) ==
    IF n = 0 THEN {<<>>}
    ELSE LET shorter == SeqsUpTo(S, n - 1)
         IN  shorter \cup {Append(q, x) : q \in {u \in shorter : Len(u) = n - 1}, x \in S}

\* The documents wrap_page may return: the rows of the page in document order.
Pages == SeqsUpTo(Products, MaxListings)

\* ------------------------------------------------------------------ the pure functions

\* The body of get_specs: product.find('td', 'specs').text.strip(); find returns
\* None for a row without td.specs and .text then raises.
get_specs_raises(product) == product.specs = <<>>
get_specs(product) == Strip(product.specs[1])

\* The key lru_cache files a row under is the row object: a row of the document
\* being consumed ("cur") at its position. The rows of the documents of earlier
\* cycles ("old") are other objects, which the cache keeps alive.
cache_find(c, pos) ==
    LET at == {k \in 1..Len(c) : c[k].doc = "cur" /\ c[k].pos = pos}
    IN  IF at = {} THEN 0 ELSE CHOOSE k \in at : TRUE

\* lru_cache with maxsize ignored.
lru_insert_unbounded(c, entry) == Append(c, entry)

\* lru_cache files a new result as the most recently used and, when full, drops
\* the least recently used.
lru_insert(c, entry) ==
    IF Len(c) >= LRU_CACHE_SIZE THEN Append(Tail(c), entry) ELSE Append(c, entry)

\* get_specs(product) as decorated with lru_cache(maxsize=LRU_CACHE_SIZE), for the
\* row at pos of the document: a hit returns the value filed and makes the entry
\* the most recently used; a miss runs the body, and files its result unless it
\* raises. from tells where the value came from.
lru_cache_call(c, pos, row) ==
    LET k == cache_find(c, pos)
    IN  IF k # 0
        THEN [raises |-> FALSE,
              specs  |-> c[k].specs,
              cache  |-> SubSeq(c, 1, k - 1) \o SubSeq(c, k + 1, Len(c)) \o <<c[k]>>,
              from   |-> c[k].doc]
        ELSE IF get_specs_raises(row)
        THEN [raises |-> TRUE, specs |-> <<>>, cache |-> c, from |-> "raised"]
        ELSE [raises |-> FALSE,
              specs  |-> get_specs(row),
              cache  |-> lru_insert(c, [doc |-> "cur", pos |-> pos, specs |-> get_specs(row)]),
              from   |-> "computed"]

\* is_match with any in place of all.
RECURSIVE is_match_any(_, _)
is_match_any(specs, terms) ==
    IF terms = <<>> THEN FALSE
    ELSE IF StrContains(specs, Head(terms)) THEN TRUE
    ELSE is_match_any(specs, Tail(terms))

\* all(term in specs for term in terms): False at the first term not found.
RECURSIVE is_match(_, _)
is_match(specs, terms) ==
    IF terms = <<>> THEN TRUE
    ELSE IF ~StrContains(specs, Head(terms)) THEN FALSE
    ELSE is_match(specs, Tail(terms))

\* get_macbook: product.h3.a and product.find('span', 'price') are None when the
\* element is missing, and the attribute access on None raises; specs is what
\* its call of get_specs(product) returns.
get_macbook_raises(product) ==
    product.h3a = <<>> \/ product.price = <<>>

get_macbook(product, specs) ==
    [title |-> Strip(product.h3a[1].text),
     link  |-> BASE_URL \o product.h3a[1].href,
     price |-> Strip(product.price[1]),
     specs |-> specs]

\* ------------------------------------------------------------------ state

VARIABLES
    seen,        \* main's set of MacBook records
    pool,        \* the bag of records handed to pool.submit(send_macbook_msg, _)
    terms,       \* loop's terms
    send_email,  \* loop's send_email
    page,        \* loop's page: the rows of the document of this cycle; <<>> between
                 \* cycles, where loop does not read page before it binds it anew
    idx,         \* how many rows gen_products has handed out in this cycle
    macbook,     \* consume_macbooks' loop variable: <<>> or <<record>>
    pc,          \* where the main thread is
    slept,       \* the argument of the last sleep: "none", "RETRY" or "wait"
    printed,     \* the lines printed since the last call of wrap_page or sleep(wait)
    yielded,     \* the records gen_macbook_matches has yielded in this cycle
    prev_records,\* between cycles: the records yielded in the cycle that ended last
    unchanged,   \* this cycle's document holds no record the cycle before did not yield
    seen_before, \* seen as it was when this cycle's document was fetched
    pool_before, \* pool as it was when this cycle's document was fetched
    queue,       \* the executor's work queue: the records of the tasks not yet started
    running,     \* the bag of records whose send_macbook_msg a worker thread is running
    failed,      \* the records whose send_macbook_msg has raised
    cache,       \* get_specs' lru_cache: its entries, the least recently used first
    served,      \* where get_specs' values came from in the last step of the generators
    built,       \* the positions of the rows handed to get_macbook in this cycle
    response,    \* what get(url) returned for this cycle: "none", "ok" or "error"
    specs_arg,   \* SpecMatch: is_match's specs
    terms_arg,   \* SpecMatch: is_match's terms
    result       \* SpecMatch: <<>> or <<the value is_match returned>>

cycleStart == <<seen_before, pool_before>>
lastCycle == <<prev_records, unchanged>>
pipeVars == <<cache, served, built>>
loopVars == <<seen, pool, terms, send_email, page, idx, macbook, pc, slept, printed,
              yielded, lastCycle, cycleStart, pipeVars, response>>
workVars == <<queue, running, failed>>
matchVars == <<specs_arg, terms_arg, result>>
vars == <<loopVars, workVars, matchVars>>

ListingLine(m) == [kind |-> "Listing", macbook |-> <<m>>, count |-> 0, sleep |-> "none"]
RetryLine == [kind |-> "Retrying", macbook |-> <<>>, count |-> 0, sleep |-> "none"]
SeenLine(n, w) == [kind |-> "Seen", macbook |-> <<>>, count |-> n, sleep |-> w]

\* main: seen = set(), a fresh pool, loop(seen, pool) about to fetch.
InitLoop ==
    /\ seen = {}
    /\ pool = EmptyBag
    /\ page = <<>>
    /\ idx = 0
    /\ macbook = <<>>
    /\ pc = "fetch"
    /\ slept = "none"
    /\ printed = <<>>
    /\ yielded = <<>>
    /\ prev_records = {}
    /\ unchanged = FALSE
    /\ seen_before = {}
    /\ pool_before = EmptyBag
    /\ cache = <<>>
    /\ served = <<>>
    /\ built = <<>>
    /\ response = "none"
    /\ queue = <<>>
    /\ running = EmptyBag
    /\ failed = {}

IdleMatch ==
    /\ specs_arg = <<>>
    /\ terms_arg = <<>>
    /\ result = <<>>

Init ==
    /\ InitLoop
    /\ terms \in TermLists
    /\ send_email \in BOOLEAN
    /\ IdleMatch

\* ------------------------------------------------------------------ loop

\* The row gen_products hands out next.
product == page[idx + 1]

\* gen_filter_products' call of get_specs on the next row, and the call that
\* get_macbook makes after it.
filter_call == lru_cache_call(cache, idx + 1, product)
build_call(filtered) == lru_cache_call(filtered.cache, idx + 1, product)

\* gen_filter_products with the test inverted.
gen_filter_products_inverted(call, ts) ==
    IF call.raises THEN "raise"
    ELSE IF ~is_match(call.specs, ts) THEN "yield"
    ELSE "skip"

\* gen_filter_products with no test.
gen_filter_products_all(call, ts) ==
    IF call.raises THEN "raise" ELSE "yield"

\* gen_filter_products on one row: specs = get_specs(product), then is_match
\* decides whether the row is yielded to gen_macbooks.
gen_filter_products(call, ts) ==
    IF call.raises THEN "raise"
    ELSE IF is_match(call.specs, ts) THEN "yield"
    ELSE "skip"

\* The records the rows of a document stand for.
DocRecords(doc) ==
    {get_macbook(doc[i], get_specs(doc[i])) :
        i \in {j \in 1..Len(doc) : /\ ~get_specs_raises(doc[j])
                                   /\ ~get_macbook_raises(doc[j])
                                   /\ is_match(get_specs(doc[j]), terms)}}

\* page = wrap_page(url): get returns the page and its rows are wrapped.
wrap_page_ok ==
    /\ pc = "fetch"
    /\ \E doc \in Pages :
        /\ page' = doc
        /\ unchanged' = (DocRecords(doc) # {} /\ DocRecords(doc) \subseteq prev_records)
    /\ response' = "ok"
    /\ prev_records' = {}
    /\ seen_before' = seen
    /\ pool_before' = pool
    /\ idx' = 0
    /\ yielded' = <<>>
    /\ printed' = <<>>
    /\ served' = <<>>
    /\ built' = <<>>
    /\ pc' = "next"
    /\ UNCHANGED <<seen, pool, terms, send_email, macbook, slept, cache, workVars,
                   matchVars>>

\* page = wrap_page(url): get returns a response with an HTTP failure status and
\* does not raise; wrap_page does not look at the status and wraps the body,
\* which holds no tr.product row.
wrap_page_http_error ==
    /\ pc = "fetch"
    /\ page' = <<>>
    /\ unchanged' = FALSE
    /\ response' = "error"
    /\ prev_records' = {}
    /\ seen_before' = seen
    /\ pool_before' = pool
    /\ idx' = 0
    /\ yielded' = <<>>
    /\ printed' = <<>>
    /\ served' = <<>>
    /\ built' = <<>>
    /\ pc' = "next"
    /\ UNCHANGED <<seen, pool, terms, send_email, macbook, slept, cache, workVars,
                   matchVars>>

\* get(url) raises RequestException: page is not bound.
wrap_page_raises ==
    /\ pc = "fetch"
    /\ printed' = <<>>
    /\ pc' = "except"
    /\ UNCHANGED <<seen, pool, terms, send_email, page, idx, macbook, slept, yielded,
                   lastCycle, cycleStart, pipeVars, response, workVars, matchVars>>

\* The except branch sleeping the poll interval.
except_retry_sleeps_wait ==
    /\ pc = "except"
    /\ slept' = "wait"
    /\ printed' = Append(printed, RetryLine)
    /\ pc' = "fetch"
    /\ UNCHANGED <<seen, pool, terms, send_email, page, idx, macbook, yielded, lastCycle,
                   cycleStart, pipeVars, response, workVars, matchVars>>

\* The except branch leaving the loop after its sleep.
except_retry_gives_up ==
    /\ pc = "except"
    /\ slept' = "RETRY"
    /\ printed' = Append(printed, RetryLine)
    /\ pc' = "stopped"
    /\ UNCHANGED <<seen, pool, terms, send_email, page, idx, macbook, yielded, lastCycle,
                   cycleStart, pipeVars, response, workVars, matchVars>>

\* except RequestException: sleep(RETRY); print("Retrying request."); continue
except_retry ==
    /\ pc = "except"
    /\ slept' = "RETRY"
    /\ printed' = Append(printed, RetryLine)
    /\ pc' = "fetch"
    /\ UNCHANGED <<seen, pool, terms, send_email, page, idx, macbook, yielded, lastCycle,
                   cycleStart, pipeVars, response, workVars, matchVars>>

\* for macbook in macbooks: the generators are exhausted, consume_macbooks returns.
for_exhausted ==
    /\ pc = "next"
    /\ idx = Len(page)
    /\ macbook' = <<>>
    /\ pc' = "summary"
    /\ UNCHANGED <<seen, pool, terms, send_email, page, idx, slept, printed, yielded,
                   lastCycle, cycleStart, pipeVars, response, workVars, matchVars>>

\* The rows filtered ahead of the for loop, as a list would be: a row without
\* td.specs further down the page raises before the rows above it are consumed.
filter_raises_eager ==
    /\ pc = "next"
    /\ \E k \in (idx + 1)..Len(page) :
        /\ get_specs_raises(page[k])
        /\ idx' = k
    /\ served' = <<>>
    /\ pc' = "crashed"
    /\ UNCHANGED <<seen, pool, terms, send_email, page, macbook, slept, printed, yielded,
                   lastCycle, cycleStart, cache, built, response, workVars, matchVars>>

\* The next row has no td.specs: get_specs raises inside gen_filter_products and
\* nothing in loop or main catches it.
filter_raises ==
    /\ pc = "next"
    /\ idx < Len(page)
    /\ \E fc \in {filter_call} :
        /\ gen_filter_products(fc, terms) = "raise"
        /\ cache' = fc.cache
    /\ served' = <<>>
    /\ idx' = idx + 1
    /\ pc' = "crashed"
    /\ UNCHANGED <<seen, pool, terms, send_email, page, macbook, slept, printed, yielded,
                   lastCycle, cycleStart, built, response, workVars, matchVars>>

\* The record built before the filter is asked: get_macbook runs on a row that
\* is then dropped.
filter_skip_builds ==
    /\ pc = "next"
    /\ idx < Len(page)
    /\ \E fc \in {filter_call} :
        /\ gen_filter_products(fc, terms) = "skip"
        /\ cache' = fc.cache
        /\ served' = <<fc.from>>
    /\ built' = Append(built, idx + 1)
    /\ idx' = idx + 1
    /\ UNCHANGED <<seen, pool, terms, send_email, page, macbook, pc, slept, printed,
                   yielded, lastCycle, cycleStart, response, workVars, matchVars>>

\* The next row's specs lack a term: gen_filter_products goes on to the row after.
filter_skip ==
    /\ pc = "next"
    /\ idx < Len(page)
    /\ \E fc \in {filter_call} :
        /\ gen_filter_products(fc, terms) = "skip"
        /\ cache' = fc.cache
        /\ served' = <<fc.from>>
    /\ idx' = idx + 1
    /\ UNCHANGED <<seen, pool, terms, send_email, page, macbook, pc, slept, printed,
                   yielded, lastCycle, cycleStart, built, response, workVars, matchVars>>

\* get_macbook's error caught and the row passed over.
build_raises_skips ==
    /\ pc = "next"
    /\ idx < Len(page)
    /\ \E fc \in {filter_call} :
        /\ gen_filter_products(fc, terms) = "yield"
        /\ \E bc \in {build_call(fc)} :
            /\ get_macbook_raises(product) \/ bc.raises
            /\ cache' = IF get_macbook_raises(product) THEN fc.cache ELSE bc.cache
        /\ served' = <<fc.from>>
    /\ built' = Append(built, idx + 1)
    /\ idx' = idx + 1
    /\ UNCHANGED <<seen, pool, terms, send_email, page, macbook, pc, slept, printed,
                   yielded, lastCycle, cycleStart, response, workVars, matchVars>>

\* The next row matches and get_macbook raises on a missing element.
build_raises ==
    /\ pc = "next"
    /\ idx < Len(page)
    /\ \E fc \in {filter_call} :
        /\ gen_filter_products(fc, terms) = "yield"
        /\ \E bc \in {build_call(fc)} :
            /\ get_macbook_raises(product) \/ bc.raises
            /\ cache' = IF get_macbook_raises(product) THEN fc.cache ELSE bc.cache
        /\ served' = <<fc.from>>
    /\ built' = Append(built, idx + 1)
    /\ idx' = idx + 1
    /\ pc' = "crashed"
    /\ UNCHANGED <<seen, pool, terms, send_email, page, macbook, slept, printed, yielded,
                   lastCycle, cycleStart, response, workVars, matchVars>>

\* The next row matches: gen_macbooks yields get_macbook(product) to the for loop.
yield_macbook ==
    /\ pc = "next"
    /\ idx < Len(page)
    /\ \E fc \in {filter_call} :
        /\ gen_filter_products(fc, terms) = "yield"
        /\ ~get_macbook_raises(product)
        /\ \E bc \in {build_call(fc)} :
            /\ ~bc.raises
            /\ cache' = bc.cache
            /\ served' = <<fc.from, bc.from>>
            /\ macbook' = <<get_macbook(product, bc.specs)>>
            /\ yielded' = Append(yielded, get_macbook(product, bc.specs))
    /\ built' = Append(built, idx + 1)
    /\ idx' = idx + 1
    /\ pc' = "print"
    /\ UNCHANGED <<seen, pool, terms, send_email, page, slept, printed, lastCycle,
                   cycleStart, response, workVars, matchVars>>

\* The listing line printed inside `if macbook not in seen`.
print_listing_only_new ==
    /\ pc = "print"
    /\ printed' = IF macbook[1] \notin seen
                  THEN Append(printed, ListingLine(macbook[1]))
                  ELSE printed
    /\ pc' = "test"
    /\ UNCHANGED <<seen, pool, terms, send_email, page, idx, macbook, slept, yielded,
                   lastCycle, cycleStart, pipeVars, response, workVars, matchVars>>

\* print('Listing:', macbook, "\n")
print_listing ==
    /\ pc = "print"
    /\ printed' = Append(printed, ListingLine(macbook[1]))
    /\ pc' = "test"
    /\ UNCHANGED <<seen, pool, terms, send_email, page, idx, macbook, slept, yielded,
                   lastCycle, cycleStart, pipeVars, response, workVars, matchVars>>

\* The membership test left out.
test_seen_always_new ==
    /\ pc = "test"
    /\ pc' = "add"
    /\ UNCHANGED <<seen, pool, terms, send_email, page, idx, macbook, slept, printed,
                   yielded, lastCycle, cycleStart, pipeVars, response, workVars,
                   matchVars>>

\* The membership test inverted: `if macbook in seen`.
test_seen_inverted ==
    /\ pc = "test"
    /\ pc' = IF macbook[1] \in seen THEN "add" ELSE "next"
    /\ UNCHANGED <<seen, pool, terms, send_email, page, idx, macbook, slept, printed,
                   yielded, lastCycle, cycleStart, pipeVars, response, workVars,
                   matchVars>>

\* The membership test letting through a record whose task has failed.
test_seen_retries_failed ==
    /\ pc = "test"
    /\ pc' = IF macbook[1] \notin seen \/ macbook[1] \in failed THEN "add" ELSE "next"
    /\ UNCHANGED <<seen, pool, terms, send_email, page, idx, macbook, slept, printed,
                   yielded, lastCycle, cycleStart, pipeVars, response, workVars,
                   matchVars>>

\* if macbook not in seen:
test_seen ==
    /\ pc = "test"
    /\ pc' = IF macbook[1] \notin seen THEN "add" ELSE "next"
    /\ UNCHANGED <<seen, pool, terms, send_email, page, idx, macbook, slept, printed,
                   yielded, lastCycle, cycleStart, pipeVars, response, workVars,
                   matchVars>>

\* seen.add left out.
add_seen_forgets ==
    /\ pc = "add"
    /\ pc' = IF send_email THEN "submit" ELSE "next"
    /\ UNCHANGED <<seen, pool, terms, send_email, page, idx, macbook, slept, printed,
                   yielded, lastCycle, cycleStart, pipeVars, response, workVars,
                   matchVars>>

\* seen rebound to the new record alone.
add_seen_replaces ==
    /\ pc = "add"
    /\ seen' = {macbook[1]}
    /\ pc' = IF send_email THEN "submit" ELSE "next"
    /\ UNCHANGED <<pool, terms, send_email, page, idx, macbook, slept, printed, yielded,
                   lastCycle, cycleStart, pipeVars, response, workVars, matchVars>>

\* The submit not guarded by send_email.
add_seen_always_submits ==
    /\ pc = "add"
    /\ seen' = seen \cup {macbook[1]}
    /\ pc' = "submit"
    /\ UNCHANGED <<pool, terms, send_email, page, idx, macbook, slept, printed, yielded,
                   lastCycle, cycleStart, pipeVars, response, workVars, matchVars>>

\* The record added and no task submitted for it.
add_seen_drops_task ==
    /\ pc = "add"
    /\ seen' = seen \cup {macbook[1]}
    /\ pc' = "next"
    /\ UNCHANGED <<pool, terms, send_email, page, idx, macbook, slept, printed, yielded,
                   lastCycle, cycleStart, pipeVars, response, workVars, matchVars>>

\* seen.add(macbook), then if send_email:
add_seen ==
    /\ pc = "add"
    /\ seen' = seen \cup {macbook[1]}
    /\ pc' = IF send_email THEN "submit" ELSE "next"
    /\ UNCHANGED <<pool, terms, send_email, page, idx, macbook, slept, printed, yielded,
                   lastCycle, cycleStart, pipeVars, response, workVars, matchVars>>

\* submit followed by a wait for the tasks handed to the pool: the call does not
\* return while a task is queued or running.
submit_joins ==
    /\ pc = "submit"
    /\ queue = <<>>
    /\ running = EmptyBag
    /\ pool' = pool (+) SetToBag({macbook[1]})
    /\ queue' = Append(queue, macbook[1])
    /\ pc' = "next"
    /\ UNCHANGED <<seen, terms, send_email, page, idx, macbook, slept, printed, yielded,
                   lastCycle, cycleStart, pipeVars, response, running, failed, matchVars>>

\* pool.submit(send_macbook_msg, macbook): the task is queued and the Future
\* that submit returns is dropped.
submit ==
    /\ pc = "submit"
    /\ pool' = pool (+) SetToBag({macbook[1]})
    /\ queue' = Append(queue, macbook[1])
    /\ pc' = "next"
    /\ UNCHANGED <<seen, terms, send_email, page, idx, macbook, slept, printed, yielded,
                   lastCycle, cycleStart, pipeVars, response, running, failed, matchVars>>

\* The summary counting the records of this page in place of len(seen).
print_summary_counts_page ==
    /\ pc = "summary"
    /\ printed' = Append(printed, SeenLine(Len(yielded), "wait"))
    /\ pc' = "sleep"
    /\ UNCHANGED <<seen, pool, terms, send_email, page, idx, macbook, slept, yielded,
                   lastCycle, cycleStart, pipeVars, response, workVars, matchVars>>

\* print("Seen:", len(seen), "@", ctime(), "Sleep:", wait)
print_summary ==
    /\ pc = "summary"
    /\ printed' = Append(printed, SeenLine(Cardinality(seen), "wait"))
    /\ pc' = "sleep"
    /\ UNCHANGED <<seen, pool, terms, send_email, page, idx, macbook, slept, yielded,
                   lastCycle, cycleStart, pipeVars, response, workVars, matchVars>>

\* sleep(wait), and the while loop starts over: the cycle is over, its document
\* and its generators are not used again.
sleep_wait ==
    /\ pc = "sleep"
    /\ slept' = "wait"
    /\ prev_records' = {yielded[i] : i \in 1..Len(yielded)}
    /\ unchanged' = FALSE
    /\ page' = <<>>
    /\ idx' = 0
    /\ yielded' = <<>>
    /\ printed' = <<>>
    /\ seen_before' = seen
    /\ pool_before' = pool
    /\ cache' = [k \in 1..Len(cache) |-> [cache[k] EXCEPT !.doc = "old"]]
    /\ served' = <<>>
    /\ built' = <<>>
    /\ response' = "none"
    /\ pc' = "fetch"
    /\ UNCHANGED <<seen, pool, terms, send_email, macbook, workVars, matchVars>>

\* ------------------------------------------------------------------ the pool's threads

\* A free worker thread of ThreadPoolExecutor(THREADS) takes the oldest task and
\* calls send_macbook_msg(macbook): the record is all the task is given.
task_start ==
    /\ queue # <<>>
    /\ BagCardinality(running) < THREADS
    /\ running' = running (+) SetToBag({Head(queue)})
    /\ queue' = Tail(queue)
    /\ UNCHANGED <<loopVars, failed, matchVars>>

\* send_macbook_msg returns: the result goes to the Future nobody holds.
task_done ==
    /\ \E m \in BagToSet(running) : running' = running (-) SetToBag({m})
    /\ UNCHANGED <<loopVars, queue, failed, matchVars>>

\* send_macbook_msg raises: the exception goes to the Future nobody holds.
task_fails ==
    /\ \E m \in BagToSet(running) :
        /\ running' = running (-) SetToBag({m})
        /\ failed' = failed \cup {m}
    /\ UNCHANGED <<loopVars, queue, matchVars>>

\* The steps of the main thread.
MainNext ==
    \/ wrap_page_ok
    \/ wrap_page_http_error
    \/ wrap_page_raises
    \/ except_retry
    \/ for_exhausted
    \/ filter_raises
    \/ filter_skip
    \/ build_raises
    \/ yield_macbook
    \/ print_listing
    \/ test_seen
    \/ add_seen
    \/ submit
    \/ print_summary
    \/ sleep_wait

\* The steps of the worker threads.
WorkerNext ==
    \/ task_start
    \/ task_done
    \/ task_fails

Next ==
    \/ MainNext
    \/ WorkerNext

Spec == Init /\ [][Next]_vars

\* The main thread always takes its next step: get returns or raises, a sleep ends.
SpecLive == Init /\ [][Next]_vars /\ WF_vars(MainNext)

\* ------------------------------------------------------------------ is_match alone

Alphabet == {"a", "A"}

InitMatch ==
    /\ InitLoop
    /\ terms = <<>>
    /\ send_email = FALSE
    /\ specs_arg \in TextsUpTo(Alphabet, MaxSpecsLen)
    /\ terms_arg \in SeqsUpTo(TextsUpTo(Alphabet, MaxTermLen), MaxTerms)
    /\ result = <<>>

call_is_match ==
    /\ result = <<>>
    /\ result' = <<is_match(specs_arg, terms_arg)>>
    /\ UNCHANGED <<loopVars, workVars, specs_arg, terms_arg>>

NextMatch == call_is_match

SpecMatch == InitMatch /\ [][NextMatch]_vars

\* ------------------------------------------------------------------ what the claims speak of

\* term is a substring of text: some slice of text is the term.
IsSubstring(term, text) ==
    \E first \in 1..(Len(text) + 1), last \in 0..Len(text) : SubSeq(text, first, last) = term

\* Every term occurs in text.
HasAllTerms(text, ts) == \A i \in 1..Len(ts) : IsSubstring(ts[i], text)

WellFormed(row) == row.h3a # <<>> /\ row.price # <<>> /\ row.specs # <<>>

\* A row whose specs hold every configured term.
Matching(row) == row.specs # <<>> /\ HasAllTerms(Strip(row.specs[1]), terms)

\* The record a well-formed row stands for.
RecordOf(row) ==
    [title |-> Strip(row.h3a[1].text),
     link  |-> BASE_URL \o row.h3a[1].href,
     price |-> Strip(row.price[1]),
     specs |-> Strip(row.specs[1])]

MatchingAndWellFormed(row) == Matching(row) /\ WellFormed(row)

\* The records of the matching well-formed rows among rows, in the rows' order.
MatchingRecords(rows) ==
    LET hits == SelectSeq(rows, MatchingAndWellFormed)
    IN  [i \in 1..Len(hits) |-> RecordOf(hits[i])]

\* The records of the listing lines among lines, in the lines' order.
ListingsPrinted(lines) ==
    LET IsListing(line) == line.kind = "Listing"
        hits == SelectSeq(lines, IsListing)
    IN  [i \in 1..Len(hits) |-> hits[i].macbook[1]]

\* consume_macbooks has returned: every row of the page has been through the loop.
CycleDone == pc \in {"summary", "sleep"}

\* The main thread is between a successful fetch and the end of that cycle.
InCycle == pc \in {"next", "print", "test", "add", "submit", "summary", "sleep", "crashed"}

PageRecords == {RecordOf(page[i]) : i \in {j \in 1..Len(page) : MatchingAndWellFormed(page[j])}}

\* ------------------------------------------------------------------ C1

\* C1: over any sequence of cycles, failed or successful, whatever the pages
\* hold, no record is handed to pool.submit more than once.
C1_AtMostOneSubmitPerRecord ==
    \A r \in BagToSet(pool) : CopiesIn(r, pool) = 1

\* A page holding the same record twice has been consumed a second time, and the
\* record has been submitted.
C1_Witness ==
    /\ unchanged
    /\ pc = "summary"
    /\ Len(yielded) = 2
    /\ yielded[1] = yielded[2]
    /\ CopiesIn(yielded[1], pool) = 1

\* ------------------------------------------------------------------ C2

\* C2: the iteration whose fetch raises RequestException changes neither seen
\* nor pool, sleeps RETRY and goes back to the fetch.
C2_FailedFetchRetries ==
    [][/\ (pc' = "except" \/ pc = "except") => (seen' = seen /\ pool' = pool)
       /\ pc' = "except" => (pc \in {"fetch", "except"} /\ slept' = slept)
       /\ (pc = "except" /\ loopVars' # loopVars) => (slept' = "RETRY" /\ pc' = "fetch")
      ]_vars

\* After a completed cycle that saw records, a fetch has failed and the loop has
\* slept RETRY and is about to fetch again.
C2_Witness ==
    /\ pc = "fetch"
    /\ slept = "RETRY"
    /\ printed = <<RetryLine>>
    /\ seen # {}

\* ------------------------------------------------------------------ C3

\* C3: with send_email, at the end of a cycle every matching record of the page
\* is in seen; one task was submitted for it in this cycle if it was not in
\* seen when the cycle began, and none if it was, as it is when the page is the
\* one of the cycle before.
C3_OneThenZero ==
    (send_email /\ CycleDone) =>
        \A r \in PageRecords :
            /\ r \in seen
            /\ r \notin seen_before => CopiesIn(r, pool) = CopiesIn(r, pool_before) + 1
            /\ r \in seen_before => CopiesIn(r, pool) = CopiesIn(r, pool_before)
            /\ unchanged => (r \in seen_before /\ CopiesIn(r, pool) = 1)

\* The second of two cycles over the same page has ended: the record was
\* submitted once, and not in this cycle.
C3_Witness ==
    /\ send_email
    /\ unchanged
    /\ pc = "summary"
    /\ yielded # <<>>
    /\ pool = pool_before
    /\ CopiesIn(yielded[1], pool) = 1

\* ------------------------------------------------------------------ C4

\* C4: without send_email nothing is ever submitted, and at the end of a cycle
\* every matching record of the page is in seen all the same.
C4_DisabledStillSeen ==
    ~send_email =>
        /\ pool = EmptyBag
        /\ CycleDone => PageRecords \subseteq seen

\* A cycle without send_email has added a record to seen.
C4_Witness ==
    /\ ~send_email
    /\ pc = "summary"
    /\ PageRecords # {}
    /\ seen # seen_before

\* ------------------------------------------------------------------ C5

\* C5: the listing lines printed in a cycle are the records of the matching rows
\* handed out so far, in the rows' order, whether seen before or not; only the
\* record just yielded (pc = "print") has no line yet, so a record's line is
\* there when its membership in seen is tested.
C5_EveryMatchLogged ==
    InCycle =>
        /\ ListingsPrinted(printed) =
               LET due == MatchingRecords(SubSeq(page, 1, idx))
               IN  IF pc = "print" THEN SubSeq(due, 1, Len(due) - 1) ELSE due
        /\ pc \in {"test", "add", "submit"} =>
               printed[Len(printed)] = ListingLine(macbook[1])

\* A page of two matching rows has been consumed again: nothing was new, both
\* were logged.
C5_Witness ==
    /\ unchanged
    /\ pc = "summary"
    /\ seen = seen_before
    /\ Len(ListingsPrinted(printed)) = 2
    /\ printed[1] # printed[2]

\* ------------------------------------------------------------------ C6

\* C6: seen is empty at the start and no step takes a record out of it.
C6_SeenGrows ==
    /\ seen = {}
    /\ [][seen \subseteq seen']_vars

\* seen has grown in two cycles.
C6_Witness ==
    /\ seen_before # {}
    /\ seen # seen_before

\* ------------------------------------------------------------------ C7

\* C7: seen.add is reached only for a record that is not in seen, and a second
\* pass over the same records reaches it never and leaves seen as it was.
C7_SecondPassChangesNothing ==
    /\ pc = "add" => macbook[1] \notin seen
    /\ unchanged => (seen = seen_before /\ pc \notin {"add", "submit"})

\* The second pass over a page with matching rows has ended.
C7_Witness ==
    /\ unchanged
    /\ CycleDone
    /\ PageRecords # {}
    /\ PageRecords \subseteq seen_before

\* ------------------------------------------------------------------ C8

\* C8: is_match(specs, terms) is true exactly when every term is a substring of
\* specs, letter case included; with no terms it is true.
C8_IsMatchIffAllTerms ==
    result # <<>> =>
        /\ result[1] <=> HasAllTerms(specs_arg, terms_arg)
        /\ terms_arg = <<>> => result[1]

\* is_match has found two different terms in specs.
C8_Witness ==
    /\ result = <<TRUE>>
    /\ Len(terms_arg) = 2
    /\ terms_arg[1] # terms_arg[2]
    /\ Len(terms_arg[1]) = 2
    /\ terms_arg[2] # <<>>

\* ------------------------------------------------------------------ C9

\* C9: for a page of well-formed rows, gen_macbook_matches yields the records of
\* the matching rows and no others, one each, in document order.
C9_YieldsTheMatches ==
    (CycleDone /\ \A i \in 1..Len(page) : WellFormed(page[i])) =>
        /\ yielded = MatchingRecords(page)
        /\ Len(yielded) = Cardinality({i \in 1..Len(page) : Matching(page[i])})

\* A page of a non-matching row followed by a matching one has yielded one record.
C9_Witness ==
    /\ pc = "summary"
    /\ Len(page) = 2
    /\ \A i \in 1..Len(page) : WellFormed(page[i])
    /\ ~Matching(page[1])
    /\ Matching(page[2])
    /\ Len(yielded) = 1

\* ------------------------------------------------------------------ C10

\* C10: the loop stops only on a malformed row; otherwise it calls wrap_page
\* again and again, however many fetches fail in a row.
C10_FetchesForever ==
    /\ [](pc = "crashed" => (idx > 0 /\ ~WellFormed(page[idx])))
    /\ \/ []<><<wrap_page_ok \/ wrap_page_http_error \/ wrap_page_raises>>_vars
       \/ <>(pc = "crashed")

\* A fetch has failed right after a failed fetch.
C10_Witness ==
    /\ pc = "except"
    /\ slept = "RETRY"
    /\ printed = <<>>

\* ------------------------------------------------------------------ C11

\* The tasks handed to the pool that have not finished.
Unfinished == {queue[i] : i \in 1..Len(queue)} \cup BagToSet(running)

\* C11: whatever tasks are queued or running, the main thread has a next step
\* until it crashes, and seen changes only in the main thread's seen.add: no
\* step that changes seen moves a task, and no step of a task changes what the
\* main thread works on.
C11_MainNeverWaits ==
    /\ [](pc # "crashed" => ENABLED MainNext)
    /\ [][seen' # seen => (pc = "add" /\ workVars' = workVars)]_vars
    /\ [][(running' # running \/ failed' # failed) => loopVars' = loopVars]_vars

\* A later cycle has reached its sleep while a task submitted in an earlier
\* cycle is still running and another is still queued.
C11_Witness ==
    /\ pc = "sleep"
    /\ slept = "wait"
    /\ queue # <<>>
    /\ running # EmptyBag
    /\ \A r \in BagToSet(running) : r \in seen_before

\* ------------------------------------------------------------------ C12

\* C12: the step in which a task fails changes nothing of the main thread; the
\* record of a failed task is in seen, has been submitted once, and has no task
\* queued or running.
C12_FailureUnobserved ==
    /\ [](\A r \in failed : /\ r \in seen
                           /\ CopiesIn(r, pool) = 1
                           /\ r \notin Unfinished)
    /\ [][failed' # failed => loopVars' = loopVars]_vars

\* A cycle has gone through a record whose task, submitted in an earlier cycle,
\* has failed; no task is queued or running.
C12_Witness ==
    /\ pc = "summary"
    /\ Len(yielded) = 1
    /\ yielded[1] \in failed
    /\ yielded[1] \in seen_before
    /\ Unfinished = {}

\* ------------------------------------------------------------------ C13

\* C13: every row handed to get_macbook in this cycle has specs holding every
\* term, and was handed to it when it came out of the filter.
C13_OnlyMatchesBuilt ==
    \A i \in 1..Len(built) :
        /\ built[i] \in 1..idx
        /\ Matching(page[built[i]])

\* The first row of the page did not match and the second was built.
C13_Witness ==
    /\ pc = "summary"
    /\ Len(page) = 2
    /\ WellFormed(page[1])
    /\ ~Matching(page[1])
    /\ built = <<2>>

\* ------------------------------------------------------------------ C14

SeenLines == {i \in 1..Len(printed) : printed[i].kind = "Seen"}

\* C14: the summary is printed when every row of the page has been through the
\* loop; it is the one summary of the cycle and its count is len(seen); the
\* main thread's next step is sleep(wait), which leads to the fetch.
C14_SummarySleepFetch ==
    /\ [](pc = "summary" => (idx = Len(page) /\ SeenLines = {}))
    /\ [](pc = "sleep" => /\ idx = Len(page)
                          /\ SeenLines = {Len(printed)}
                          /\ printed[Len(printed)] = SeenLine(Cardinality(seen), "wait"))
    /\ [][(pc = "summary" /\ loopVars' # loopVars) => pc' = "sleep"]_vars
    /\ [][(pc = "sleep" /\ loopVars' # loopVars) => (slept' = "wait" /\ pc' = "fetch")]_vars

\* A cycle over a page with one record has printed its summary and seen holds
\* two records.
C14_Witness ==
    /\ pc = "sleep"
    /\ Len(yielded) = 1
    /\ Cardinality(seen) = 2

\* ------------------------------------------------------------------ C15

\* The rows on which the pipeline raises: get_specs on a row without td.specs,
\* get_macbook on a matching row without h3.a or span.price.
Raises(row) == row.specs = <<>> \/ (Matching(row) /\ ~WellFormed(row))

\* C15 as stated: a cycle that has gone through a row lacking an element has
\* crashed.
C15_EveryMalformedRowCrashes ==
    (InCycle /\ \E j \in 1..idx : ~WellFormed(page[j])) => pc = "crashed"

\* C15 amended: the cycle crashes on the first row without td.specs or matching
\* row without h3.a or span.price, and only there; after the crash the main
\* thread takes no step: no summary, no sleep, no fetch.
C15_RaisingRowCrashes ==
    /\ []((InCycle /\ \E j \in 1..idx : Raises(page[j])) => pc = "crashed")
    /\ [](pc = "crashed" => /\ idx > 0
                            /\ Raises(page[idx])
                            /\ \A j \in 1..(idx - 1) : ~Raises(page[j])
                            /\ SeenLines = {}
                            /\ ~ENABLED MainNext)
    /\ [][pc = "crashed" => loopVars' = loopVars]_vars

\* get_macbook has raised on a matching row without span.price, after a record
\* of the same page was printed.
C15_Witness ==
    /\ pc = "crashed"
    /\ idx = 2
    /\ page[2].specs # <<>>
    /\ page[2].price = <<>>
    /\ Len(printed) = 1

\* ------------------------------------------------------------------ C16

\* C16 as stated: a response with an HTTP failure status takes the except
\* branch and is not consumed as a page.
C16_HttpFailureRetries ==
    response = "error" => pc = "except"

\* ------------------------------------------------------------------ C17

C18_SeenAllMatch ==
    \A r \in seen \cup BagToSet(pool) \cup Unfinished \cup failed : HasAllTerms(r.specs, terms)

\* With terms configured, a cycle over a page with a row that does not match
\* has ended with a record in seen.
C18_Witness ==
    /\ terms # <<>>
    /\ pc = "summary"
    /\ seen # {}
    /\ \E j \in 1..Len(page) : WellFormed(page[j]) /\ ~Matching(page[j])

\* ------------------------------------------------------------------ C19

\* C19: with send_email, the records submitted are records of seen, and are
\* all of seen when the main thread is at the summary, the sleep, the fetch or
\* the except branch.
C19_SubmittedIsSeen ==
    send_email =>
        /\ BagToSet(pool) \subseteq seen
        /\ pc \in {"summary", "sleep", "fetch", "except"} => BagToSet(pool) = seen

\* With send_email, a cycle has ended with two records in seen, one of them
\* added in this cycle.
C19_Witness ==
    /\ send_email
    /\ pc = "summary"
    /\ Cardinality(seen) = 2
    /\ Cardinality(seen_before) = 1
    /\ BagToSet(pool) = seen

\* ------------------------------------------------------------------ C20

\* C20: when the cycle has crashed on row idx, the records of the matching rows
\* before it have been printed, are in seen and, with send_email, have been
\* submitted; and in every state no row beyond idx has been through get_specs
\* or get_macbook.
C20_LazyPipeline ==
    /\ pc = "crashed" =>
        LET due == MatchingRecords(SubSeq(page, 1, idx - 1))
        IN  /\ ListingsPrinted(printed) = due
            /\ \A i \in 1..Len(due) : /\ due[i] \in seen
                                       /\ send_email => due[i] \in BagToSet(pool)
    /\ \A k \in 1..Len(cache) : cache[k].doc = "cur" => cache[k].pos <= idx
    /\ \A i \in 1..Len(built) : built[i] <= idx

\* The cycle has crashed on its second row after a new record from the first
\* row was printed, added and submitted.
C20_Witness ==
    /\ pc = "crashed"
    /\ idx = 2
    /\ send_email
    /\ Len(ListingsPrinted(printed)) = 1
    /\ ListingsPrinted(printed)[1] \notin seen_before
    /\ ListingsPrinted(printed)[1] \in BagToSet(pool)

====
